---- MODULE Spec2Model ----
(***************************************************************************)
(* Model of salestax-srv/lrucache/lrucache.go: a fixed-capacity LRU cache  *)
(* (container/list + map) guarded by a sync.RWMutex, with the fill-through *)
(* lookup FastRateLookup.  Each thread runs one public call at a time; a   *)
(* call is a sequence of steps, one per lock operation or per block of     *)
(* code executed between two lock operations.                              *)
(***************************************************************************)
EXTENDS Integers, Sequences, FiniteSets, TLC

\* ------------------------------------------------------------------ bounds
MaxSize == 2
NumThreads == 2
NumKeys == 3
NumVals == 2
\* atomic runs: calls a thread makes
MaxCalls == 2

\* ------------------------------------------------------------- value sets
Threads == 1..NumThreads
Keys == 1..NumKeys
Vals == 1..NumVals
SizeArgs == (-1)..MaxSize
\* runs that look at the order of three entries: a cache one entry larger,
\* and one more key to evict from it
WideSizes == 1..(MaxSize + 1)
WideKeys == 1..(NumKeys + 1)
\* addresses of list.Elements (each with its *CacheItem): one per place that
\* can refer to an element, and one more for the element being allocated
ElemIds == 1..(MaxSize + NumKeys + NumThreads + 3)

\* nil *list.Element / nil *CacheItem
NoElem == 0
\* the RWMutex has no writer
NoThread == 0
\* math.NaN()
NaN == -1

NoErr == "nil"
ErrNotFound == "Key not found"
ErrLoader == "Using provided data acquistion routine"
ErrInsert == "Value insertion into cache failed"

VARIABLES
    sz,         \* the argument New was called with
    panicked,   \* New panicked: there is no cache
    size,       \* LRUCache.size
    list,       \* LRUCache.list: element ids, front first
    cache,      \* LRUCache.cache: key -> element id
    items,      \* the CacheItem of each live element: [key, value]
    readers,    \* threads holding mutex.RLock
    writer,     \* thread holding mutex.Lock, or NoThread
    th,         \* per thread: position and local variables of its call
    pre,        \* sequential runs: Contents at the start of the current call
    prev,       \* sequential runs: summary of the previous completed call
    run,        \* sequential runs: keys of the latest Insert calls in a row
    lin,        \* atomic runs: the atomic caches the calls so far agree with
    calls       \* atomic runs: the number of calls each thread has made

vars == <<sz, panicked, size, list, cache, items, readers, writer, th,
          pre, prev, run, lin, calls>>

\* ------------------------------------------------------- container/list
Range(s) == {s[i] : i \in DOMAIN s}

Remove(l, e) == SelectSeq(l, LAMBDA x : x # e)

\* faulty variant: the element is not moved
MoveToFront_noop(l, e) == l

\* faulty variant: the element and the front element change places
MoveToFront_swap(l, e) ==
    IF e \notin Range(l) \/ l[1] = e THEN l
    ELSE [i \in DOMAIN l |-> IF i = 1 THEN e ELSE IF l[i] = e THEN l[1] ELSE l[i]]

\* no-op when e was removed from the list (e.list != l) or is the front
MoveToFront(l, e) ==
    IF e \notin Range(l) \/ l[1] = e THEN l ELSE <<e>> \o Remove(l, e)

\* faulty variant: PushBack instead of PushFront
PushFront_back(l, e) == Append(l, e)

PushFront(l, e) == <<e>> \o l

\* faulty variant: Front instead of Back
Back_front(l) == IF l = <<>> THEN NoElem ELSE l[1]

Back(l) == IF l = <<>> THEN NoElem ELSE l[Len(l)]

\* ------------------------------------------------------------------ map
delete(c, k) == [x \in (DOMAIN c) \ {k} |-> c[x]]

assign(c, k, e) == [x \in (DOMAIN c) \cup {k} |-> IF x = k THEN e ELSE c[x]]

EmptyMap == [x \in {} |-> NoElem]

\* ------------------------------------------------------------------- heap
\* Go code cannot observe the address of an element, so a state is kept up
\* to renaming of addresses: every reference to an element (from the list,
\* front first, then from the map by key, then from the threads' locals) is
\* listed, and an element's address is the place of the first reference to
\* it.  Elements nothing refers to are garbage and are dropped.
References(l, c, t) ==
    l \o [k \in WideKeys |-> IF k \in DOMAIN c THEN c[k] ELSE NoElem]
      \o [u \in 1..NumThreads |-> t[u].elem]

Addr(refs, e) ==
    IF e = NoElem THEN NoElem
    ELSE CHOOSE i \in DOMAIN refs :
            refs[i] = e /\ \A j \in 1..(i - 1) : refs[j] # e

\* the address of a new element: one that nothing refers to
NewElem == MaxSize + NumKeys + NumThreads + 3

\* the next state of the heap and of the threads' locals: list l, map c,
\* items it, locals t
Heap(l, c, it, t) ==
    \E refs \in {References(l, c, t)} :
        /\ list' = [i \in DOMAIN l |-> Addr(refs, l[i])]
        /\ cache' = [k \in DOMAIN c |-> Addr(refs, c[k])]
        /\ items' = [a \in {i \in DOMAIN refs :
                              refs[i] # NoElem
                              /\ \A j \in 1..(i - 1) : refs[j] # refs[i]} |->
                        it[refs[a]]]
        /\ th' = [u \in Threads |-> [t[u] EXCEPT !.elem = Addr(refs, @)]]

\* ------------------------------------------------------------------- New
\* faulty variant: a capacity that is not positive is clamped to 1
New_clamps(n) ==
    IF n <= 0
    THEN [panic |-> FALSE, size |-> 1, list |-> <<>>, cache |-> EmptyMap]
    ELSE [panic |-> FALSE, size |-> n, list |-> <<>>, cache |-> EmptyMap]

\* lines 36-46
New(n) ==
    IF n <= 0
    THEN [panic |-> TRUE, size |-> 0, list |-> <<>>, cache |-> EmptyMap]
    ELSE [panic |-> FALSE, size |-> n, list |-> <<>>, cache |-> EmptyMap]

\* ----------------------------------------------------------------- prune
\* faulty variant: the evicted key is not deleted from the map
prune_keepIndex(n, l, c, it) ==
    IF n = 0 \/ Back(l) = NoElem
    THEN [list |-> l, cache |-> c]
    ELSE [list |-> Remove(l, Back(l)), cache |-> c]

\* lines 126-137
RECURSIVE prune(_, _, _, _)
prune(n, l, c, it) ==
    IF n = 0 \/ Back(l) = NoElem
    THEN [list |-> l, cache |-> c]
    ELSE prune(n - 1, Remove(l, Back(l)), delete(c, it[Back(l)].key), it)

\* ---------------------------------------------------------- Insert's body
\* faulty variant: the value is not stored
InsertUpdate_noValue(k, v, l, c, it) ==
    [list |-> MoveToFront(l, c[k]), cache |-> c, items |-> it]

\* lines 108-110: the key is cached
InsertUpdate(k, v, l, c, it) ==
    [list  |-> MoveToFront(l, c[k]),
     cache |-> c,
     items |-> [it EXCEPT ![c[k]].value = v]]

\* faulty variant: a full cache is not pruned
InsertNew_noPrune(k, v, n, l, c, it, e) ==
    [list  |-> PushFront(l, e),
     cache |-> assign(c, k, e),
     items |-> [x \in (DOMAIN it) \cup {e} |->
                   IF x = e THEN [key |-> k, value |-> v] ELSE it[x]]]

\* lines 114-121: the key is not cached; e is the new element
InsertNew(k, v, n, l, c, it, e) ==
    LET p == IF Len(l) >= n THEN prune(1, l, c, it)
                            ELSE [list |-> l, cache |-> c]
    IN  [list  |-> PushFront(p.list, e),
         cache |-> assign(p.cache, k, e),
         items |-> [x \in (DOMAIN it) \cup {e} |->
                       IF x = e THEN [key |-> k, value |-> v] ELSE it[x]]]

\* ------------------------------------------------------------ thread state
Idle == [pc |-> "idle", op |-> "none", key |-> 0, value |-> NaN,
         loader |-> "nil", elem |-> NoElem, exists |-> FALSE, err |-> NoErr,
         taxRate |-> NaN, inner |-> [taxRate |-> NaN, err |-> NoErr],
         ret |-> [value |-> NaN, err |-> NoErr], loaderCalls |-> 0]

\* the cache as a sequence of <<key, value>>, front first
Contents == [i \in DOMAIN list |-> <<items[list[i]].key, items[list[i]].value>>]

NoCall == [op |-> "none", key |-> 0, loaded |-> NaN, err |-> NoErr]

\* an atomic cache: its contents, and for each thread whether its call is
\* not made ("none"), made and not yet executed ("pending"), or executed,
\* with its result
NoCalls == [abs |-> <<>>, st |-> [t \in Threads |-> "none"]]

Init ==
    /\ sz \in SizeArgs
    /\ panicked = New(sz).panic
    /\ size = New(sz).size
    /\ list = New(sz).list
    /\ cache = New(sz).cache
    /\ items = EmptyMap
    /\ readers = {}
    /\ writer = NoThread
    /\ th = [t \in Threads |-> Idle]
    /\ pre = <<>>
    /\ prev = NoCall
    /\ run = <<>>
    /\ lin = {NoCalls}
    /\ calls = [t \in Threads |-> 0]

\* ------------------------------------------------------------------ calls
Fixed == UNCHANGED <<sz, panicked, size>>

LockSame == UNCHANGED <<readers, writer>>

\* a step that changes only thread t's locals, to r
Locals(t, r) == Heap(list, cache, items, [th EXCEPT ![t] = r])

CallGet(t, k) ==
    /\ ~panicked /\ th[t].pc = "idle"
    /\ Locals(t, [Idle EXCEPT !.pc = "Get_RLock", !.op = "Get", !.key = k])
    /\ Fixed /\ LockSame

CallInsert(t, k, v) ==
    /\ ~panicked /\ th[t].pc = "idle"
    /\ Locals(t, [Idle EXCEPT !.pc = "Insert_Lock", !.op = "Insert",
                              !.key = k, !.value = v])
    /\ Fixed /\ LockSame

\* lines 54-58: taxRate := NaN, then c.Get(key)
CallFastRateLookup(t, k, ld) ==
    /\ ~panicked /\ th[t].pc = "idle"
    /\ Locals(t, [Idle EXCEPT !.pc = "Get_RLock", !.op = "FastRateLookup",
                              !.key = k, !.loader = ld, !.taxRate = NaN])
    /\ Fixed /\ LockSame

\* the caller takes the result and the thread is ready for its next call
Return(t) ==
    /\ th[t].pc = "done"
    /\ Locals(t, Idle)
    /\ Fixed /\ LockSame

\* --------------------------------------------------------- FastRateLookup
\* faulty variant: a given loader is called whatever Get returned
FRLAfterGet_loaderFirst(r) ==
    IF r.loader # "nil"
    THEN [r EXCEPT !.pc = "FRL_loader", !.loaderCalls = @ + 1]
    ELSE IF r.err = NoErr
    THEN [r EXCEPT !.pc = "FRL_value"]
    ELSE [r EXCEPT !.pc = "done", !.ret = [value |-> NaN, err |-> r.err]]

\* faulty variant: a miss without a loader is reported as a loader failure
FRLAfterGet_loaderError(r) ==
    IF r.err = NoErr
    THEN [r EXCEPT !.pc = "FRL_value"]
    ELSE IF r.loader # "nil"
    THEN [r EXCEPT !.pc = "FRL_loader", !.loaderCalls = @ + 1]
    ELSE [r EXCEPT !.pc = "done", !.ret = [value |-> NaN, err |-> ErrLoader]]

\* lines 58-62, 75: the branch on Get's result (val, err)
FRLAfterGet(r) ==
    IF r.err = NoErr
    THEN [r EXCEPT !.pc = "FRL_value"]
    ELSE IF r.loader # "nil"
    THEN [r EXCEPT !.pc = "FRL_loader", !.loaderCalls = @ + 1]
    ELSE [r EXCEPT !.pc = "done", !.ret = [value |-> NaN, err |-> r.err]]

\* line 79 after the loader block: the function's own taxRate, which the
\* block's taxRate (line 64) shadows
FRLResult(r) == [value |-> r.taxRate, err |-> NoErr]

\* faulty variant: line 70 tests the err of Get (line 58)
FRLAfterInsert_outerErr(r) ==
    [r EXCEPT !.pc = "done",
              !.ret = IF r.err # NoErr
                      THEN [value |-> NaN, err |-> ErrInsert]
                      ELSE FRLResult(r)]

\* lines 70-72, 79: err is the loader's err
FRLAfterInsert(r) ==
    [r EXCEPT !.pc = "done",
              !.ret = IF r.inner.err # NoErr
                      THEN [value |-> NaN, err |-> ErrInsert]
                      ELSE FRLResult(r)]

\* lines 59, 79: val.value is read without the lock
FRLValue(t) ==
    /\ th[t].pc = "FRL_value"
    /\ Locals(t, [th[t] EXCEPT !.pc = "done",
                     !.taxRate = items[th[t].elem].value,
                     !.ret = [value |-> items[th[t].elem].value, err |-> NoErr]])
    /\ Fixed /\ LockSame

\* faulty variant: the error of Get is returned in place of the loader failure
FRLLoaderFails_conflates(t) ==
    /\ th[t].pc = "FRL_loader"
    /\ Locals(t, [th[t] EXCEPT !.pc = "done",
                     !.inner = [taxRate |-> NaN, err |-> "loader error"],
                     !.ret = [value |-> NaN, err |-> th[t].err]])
    /\ Fixed /\ LockSame

\* lines 64-67: the loader fails
FRLLoaderFails(t) ==
    /\ th[t].pc = "FRL_loader"
    /\ Locals(t, [th[t] EXCEPT !.pc = "done",
                     !.inner = [taxRate |-> NaN, err |-> "loader error"],
                     !.ret = [value |-> NaN, err |-> ErrLoader]])
    /\ Fixed /\ LockSame

\* lines 64-69: the loader returns (v, nil) into the block's own taxRate and
\* err, and c.Insert(key, taxRate) is called
FRLLoaderReturns(t, v) ==
    /\ th[t].pc = "FRL_loader"
    /\ Locals(t, [th[t] EXCEPT !.pc = "Insert_Lock",
                     !.inner = [taxRate |-> v, err |-> NoErr],
                     !.value = v])
    /\ Fixed /\ LockSame

\* -------------------------------------------------------------------- Get
\* Get returns (item, e) to its caller: the program, or FastRateLookup line 58
GetReturns(r, item, e) ==
    IF r.op = "Get"
    THEN [r EXCEPT !.pc = "done", !.elem = item, !.err = e,
                   !.ret = [value |-> NaN, err |-> e]]
    ELSE FRLAfterGet([r EXCEPT !.elem = item, !.err = e])

\* lines 86-87
GetRLock(t) ==
    /\ th[t].pc = "Get_RLock"
    /\ writer = NoThread
    /\ readers' = readers \cup {t}
    /\ UNCHANGED writer
    /\ Locals(t, [th[t] EXCEPT !.pc = "Get_RUnlock",
                     !.exists = (th[t].key \in DOMAIN cache),
                     !.elem = IF th[t].key \in DOMAIN cache
                              THEN cache[th[t].key] ELSE NoElem])
    /\ Fixed

\* faulty variant: the shared lock is released on a hit only
GetRUnlock_leak(t) ==
    /\ th[t].pc = "Get_RUnlock"
    /\ readers' = IF th[t].exists THEN readers \ {t} ELSE readers
    /\ UNCHANGED writer
    /\ Locals(t, IF th[t].exists
                 THEN [th[t] EXCEPT !.pc = "Get_Lock"]
                 ELSE GetReturns(th[t], NoElem, ErrNotFound))
    /\ Fixed

\* faulty variant: the exclusive lock is taken on a miss too
GetRUnlock_alwaysLocks(t) ==
    /\ th[t].pc = "Get_RUnlock"
    /\ readers' = readers \ {t}
    /\ UNCHANGED writer
    /\ Locals(t, [th[t] EXCEPT !.pc = "Get_Lock"])
    /\ Fixed

\* faulty variant: on a hit the shared lock is kept while the exclusive lock
\* is requested
GetRUnlock_upgrade(t) ==
    /\ th[t].pc = "Get_RUnlock"
    /\ readers' = IF th[t].exists THEN readers ELSE readers \ {t}
    /\ UNCHANGED writer
    /\ Locals(t, IF th[t].exists
                 THEN [th[t] EXCEPT !.pc = "Get_Lock"]
                 ELSE GetReturns(th[t], NoElem, ErrNotFound))
    /\ Fixed

\* lines 88-90, 97
GetRUnlock(t) ==
    /\ th[t].pc = "Get_RUnlock"
    /\ readers' = readers \ {t}
    /\ UNCHANGED writer
    /\ Locals(t, IF th[t].exists
                 THEN [th[t] EXCEPT !.pc = "Get_Lock"]
                 ELSE GetReturns(th[t], NoElem, ErrNotFound))
    /\ Fixed

\* lines 91-92
GetLock(t) ==
    /\ th[t].pc = "Get_Lock"
    /\ writer = NoThread /\ readers = {}
    /\ writer' = t
    /\ UNCHANGED readers
    /\ Locals(t, [th[t] EXCEPT !.pc = "Get_MoveToFront"])
    /\ Fixed

\* line 94
GetMoveToFront(t) ==
    /\ th[t].pc = "Get_MoveToFront"
    /\ Heap(MoveToFront(list, th[t].elem), cache, items,
            [th EXCEPT ![t].pc = "Get_Unlock"])
    /\ Fixed /\ LockSame

\* lines 93, 95
GetUnlock(t) ==
    /\ th[t].pc = "Get_Unlock"
    /\ writer' = NoThread
    /\ UNCHANGED readers
    /\ Locals(t, GetReturns(th[t], th[t].elem, NoErr))
    /\ Fixed

\* ----------------------------------------------------------------- Insert
\* line 103
InsertLock(t) ==
    /\ th[t].pc = "Insert_Lock"
    /\ writer = NoThread /\ readers = {}
    /\ writer' = t
    /\ UNCHANGED readers
    /\ Locals(t, [th[t] EXCEPT !.pc = "Insert_body"])
    /\ Fixed

\* faulty variant: the key is never looked up, a new element is always pushed
InsertBody_alwaysNew(t) ==
    /\ th[t].pc = "Insert_body"
    /\ LET r == InsertNew(th[t].key, th[t].value, size, list, cache, items, NewElem)
       IN  Heap(r.list, r.cache, r.items, [th EXCEPT ![t].pc = "Insert_Unlock"])
    /\ Fixed /\ LockSame

\* lines 106-122
InsertBody(t) ==
    /\ th[t].pc = "Insert_body"
    /\ LET k == th[t].key
           r == IF k \in DOMAIN cache
                THEN InsertUpdate(k, th[t].value, list, cache, items)
                ELSE InsertNew(k, th[t].value, size, list, cache, items, NewElem)
       IN  Heap(r.list, r.cache, r.items, [th EXCEPT ![t].pc = "Insert_Unlock"])
    /\ Fixed /\ LockSame

\* lines 104, 123: Insert returns nil to the program, or to FastRateLookup line 69
InsertUnlock(t) ==
    /\ th[t].pc = "Insert_Unlock"
    /\ writer' = NoThread
    /\ UNCHANGED readers
    /\ Locals(t, IF th[t].op = "Insert"
                 THEN [th[t] EXCEPT !.pc = "done",
                                    !.ret = [value |-> NaN, err |-> NoErr]]
                 ELSE FRLAfterInsert(th[t]))
    /\ Fixed

\* ------------------------------------------------------------------- Next
Loaders == {"nil", "func"}

\* threads call into the cache concurrently
Concurrent == UNCHANGED <<pre, prev, run, lin, calls>>

Next ==
    \/ \E t \in Threads, k \in Keys : CallGet(t, k) /\ Concurrent
    \/ \E t \in Threads, k \in Keys, v \in Vals : CallInsert(t, k, v) /\ Concurrent
    \/ \E t \in Threads, k \in Keys, ld \in Loaders :
          CallFastRateLookup(t, k, ld) /\ Concurrent
    \/ \E t \in Threads : Return(t) /\ Concurrent
    \/ \E t \in Threads : GetRLock(t) /\ Concurrent
    \/ \E t \in Threads : GetRUnlock(t) /\ Concurrent
    \/ \E t \in Threads : GetLock(t) /\ Concurrent
    \/ \E t \in Threads : GetMoveToFront(t) /\ Concurrent
    \/ \E t \in Threads : GetUnlock(t) /\ Concurrent
    \/ \E t \in Threads : InsertLock(t) /\ Concurrent
    \/ \E t \in Threads : InsertBody(t) /\ Concurrent
    \/ \E t \in Threads : InsertUnlock(t) /\ Concurrent
    \/ \E t \in Threads : FRLValue(t) /\ Concurrent
    \/ \E t \in Threads : FRLLoaderFails(t) /\ Concurrent
    \/ \E t \in Threads, v \in Vals : FRLLoaderReturns(t, v) /\ Concurrent

Spec == Init /\ [][Next]_vars

\* ---------------------------------------------------- sequences of entries
KeysOf(s) == {s[i][1] : i \in DOMAIN s}

ValueOf(s, k) == s[CHOOSE i \in DOMAIN s : s[i][1] = k][2]

Without(s, k) == SelectSeq(s, LAMBDA e : e[1] # k)

AllButBack(s) == SubSeq(s, 1, Len(s) - 1)

\* ------------------------------------------------------------ atomic runs
\* Get (lines 85-98) executed in one step on contents s
AtomicGet(s, k) ==
    IF k \in KeysOf(s)
    THEN [abs |-> <<<<k, ValueOf(s, k)>>>> \o Without(s, k), res |-> "hit"]
    ELSE [abs |-> s, res |-> "miss"]

\* Insert (lines 102-124) executed in one step on contents s of a cache of
\* capacity n
AtomicInsert(s, k, v, n) ==
    [abs |-> <<<<k, v>>>> \o (IF k \in KeysOf(s) THEN Without(s, k)
                             ELSE IF Len(s) >= n THEN AllButBack(s) ELSE s),
     res |-> "ok"]

\* the atomic cache c executes the pending call of thread t, whose locals are r
Linearize(c, t, r) ==
    LET o == IF r.op = "Get" THEN AtomicGet(c.abs, r.key)
                             ELSE AtomicInsert(c.abs, r.key, r.value, size)
    IN  [abs |-> o.abs, st |-> [c.st EXCEPT ![t] = o.res]]

\* the atomic caches S and all those that come of them by executing up to n
\* pending calls, in any order; T are the threads' locals
RECURSIVE Closure(_, _, _)
Closure(S, T, n) ==
    IF n = 0 THEN S
    ELSE Closure(S \cup UNION {{Linearize(c, t, T[t]) :
                                   t \in {u \in Threads : c.st[u] = "pending"}} :
                               c \in S},
                 T, n - 1)

\* what the call of a thread with locals r returned: hit or miss for Get
Outcome(r) ==
    IF r.op = "Get" THEN (IF r.ret.err = NoErr THEN "hit" ELSE "miss") ELSE "ok"

\* thread t makes a call: every atomic cache may execute it from now on
LinCall(t) ==
    /\ lin' = Closure({[c EXCEPT !.st[t] = "pending"] : c \in lin}, th', NumThreads)
    /\ calls' = [calls EXCEPT ![t] = @ + 1]
    /\ UNCHANGED <<pre, prev, run>>

\* the call of thread t returns: the atomic caches that executed it with the
\* result it returns are kept; when no call is in progress one of them must
\* have the contents of the cache, and none is kept otherwise
LinReturn(t) ==
    /\ \E kept \in {{[c EXCEPT !.st[t] = "none"] :
                        c \in {d \in lin : d.st[t] = Outcome(th[t])}}} :
          lin' = IF /\ \A u \in Threads \ {t} : th[u].pc = "idle"
                    /\ ~ \E c \in kept : c.abs = Contents
                 THEN {}
                 ELSE kept
    /\ UNCHANGED <<pre, prev, run, calls>>

\* thread t may make another call
MayCall(t) == calls[t] < MaxCalls

\* threads call Get and Insert concurrently, MaxCalls times each
NextLin ==
    \/ \E t \in Threads : MayCall(t) /\ \E k \in Keys : CallGet(t, k) /\ LinCall(t)
    \/ \E t \in Threads : MayCall(t) /\ \E k \in Keys, v \in Vals :
          CallInsert(t, k, v) /\ LinCall(t)
    \/ \E t \in Threads : Return(t) /\ LinReturn(t)
    \/ \E t \in Threads : GetRLock(t) /\ Concurrent
    \/ \E t \in Threads : GetRUnlock(t) /\ Concurrent
    \/ \E t \in Threads : GetLock(t) /\ Concurrent
    \/ \E t \in Threads : GetMoveToFront(t) /\ Concurrent
    \/ \E t \in Threads : GetUnlock(t) /\ Concurrent
    \/ \E t \in Threads : InsertLock(t) /\ Concurrent
    \/ \E t \in Threads : InsertBody(t) /\ Concurrent
    \/ \E t \in Threads : InsertUnlock(t) /\ Concurrent

SpecLin == Init /\ [][NextLin]_vars

\* ------------------------------------------------------------- fair runs
\* thread t takes the lock it waits for: RLock (line 86) or Lock (lines 92, 103)
Acquire(t) ==
    (GetRLock(t) \/ GetLock(t) \/ InsertLock(t)) /\ Concurrent

\* no lock operation and no branch depends on the values stored: the fair
\* runs store a single value
FairVals == {CHOOSE v \in Vals : TRUE}

\* thread t runs on inside its call: code between lock operations, unlocks,
\* and the loader coming back
Proceed(t) ==
    /\ \/ GetRUnlock(t) \/ GetMoveToFront(t) \/ GetUnlock(t)
       \/ InsertBody(t) \/ InsertUnlock(t)
       \/ FRLValue(t) \/ FRLLoaderFails(t)
       \/ \E v \in FairVals : FRLLoaderReturns(t, v)
    /\ Concurrent

NextFair ==
    \/ \E t \in Threads, k \in Keys : CallGet(t, k) /\ Concurrent
    \/ \E t \in Threads, k \in Keys, v \in FairVals : CallInsert(t, k, v) /\ Concurrent
    \/ \E t \in Threads, k \in Keys, ld \in Loaders :
          CallFastRateLookup(t, k, ld) /\ Concurrent
    \/ \E t \in Threads : Return(t) /\ Concurrent
    \/ \E t \in Threads : GetRLock(t) /\ Concurrent
    \/ \E t \in Threads : GetRUnlock(t) /\ Concurrent
    \/ \E t \in Threads : GetLock(t) /\ Concurrent
    \/ \E t \in Threads : GetMoveToFront(t) /\ Concurrent
    \/ \E t \in Threads : GetUnlock(t) /\ Concurrent
    \/ \E t \in Threads : InsertLock(t) /\ Concurrent
    \/ \E t \in Threads : InsertBody(t) /\ Concurrent
    \/ \E t \in Threads : InsertUnlock(t) /\ Concurrent
    \/ \E t \in Threads : FRLValue(t) /\ Concurrent
    \/ \E t \in Threads : FRLLoaderFails(t) /\ Concurrent
    \/ \E t \in Threads, v \in FairVals : FRLLoaderReturns(t, v) /\ Concurrent

\* every goroutine keeps running, the loader terminates, and the RWMutex is
\* fair: a goroutine that finds the lock free again and again gets it
Fairness ==
    \A t \in Threads : WF_vars(Proceed(t)) /\ SF_vars(Acquire(t))

SpecFair == Init /\ [][NextFair]_vars /\ Fairness

\* ------------------------------------------------------- sequential runs
\* the goroutine of main
MainThread == CHOOSE t \in Threads : \A u \in Threads : t <= u

\* one call at a time: only main calls into the cache, as in its loop
Alone(t) == t = MainThread /\ \A u \in Threads \ {t} : th[u].pc = "idle"

\* the distinct keys of the latest Insert calls that followed one another,
\* oldest first, after Insert(k); at most size + 1 of them are kept
RunAfter(k) ==
    LET cut == IF \E i \in DOMAIN run : run[i] = k
               THEN CHOOSE i \in DOMAIN run : run[i] = k ELSE 0
        r == SubSeq(run, cut + 1, Len(run)) \o <<k>>
    IN  IF Len(r) > size + 1 THEN SubSeq(r, Len(r) - size, Len(r)) ELSE r

\* a call starts: the cache's contents are recorded
Starts(r) == pre' = Contents /\ prev' = prev /\ run' = r /\ UNCHANGED <<lin, calls>>

\* a call returns to the program: it becomes the previous call
Returns(t) ==
    /\ pre' = <<>>
    /\ prev' = [op |-> th[t].op, key |-> th[t].key,
                loaded |-> th[t].inner.taxRate, err |-> th[t].ret.err]
    /\ UNCHANGED <<run, lin, calls>>

Inside == UNCHANGED <<pre, prev, run, lin, calls>>

NextSeq ==
    \/ \E t \in Threads : Alone(t) /\ \E k \in Keys : CallGet(t, k) /\ Starts(<<>>)
    \/ \E t \in Threads : Alone(t) /\ \E k \in Keys, v \in Vals :
          CallInsert(t, k, v) /\ Starts(RunAfter(k))
    \/ \E t \in Threads : Alone(t) /\ \E k \in Keys, ld \in Loaders :
          CallFastRateLookup(t, k, ld) /\ Starts(<<>>)
    \/ \E t \in Threads : Alone(t) /\ Return(t) /\ Returns(t)
    \/ \E t \in Threads : Alone(t) /\ GetRLock(t) /\ Inside
    \/ \E t \in Threads : Alone(t) /\ GetRUnlock(t) /\ Inside
    \/ \E t \in Threads : Alone(t) /\ GetLock(t) /\ Inside
    \/ \E t \in Threads : Alone(t) /\ GetMoveToFront(t) /\ Inside
    \/ \E t \in Threads : Alone(t) /\ GetUnlock(t) /\ Inside
    \/ \E t \in Threads : Alone(t) /\ InsertLock(t) /\ Inside
    \/ \E t \in Threads : Alone(t) /\ InsertBody(t) /\ Inside
    \/ \E t \in Threads : Alone(t) /\ InsertUnlock(t) /\ Inside
    \/ \E t \in Threads : Alone(t) /\ FRLValue(t) /\ Inside
    \/ \E t \in Threads : Alone(t) /\ FRLLoaderFails(t) /\ Inside
    \/ \E t \in Threads : Alone(t) /\ \E v \in Vals : FRLLoaderReturns(t, v) /\ Inside

SpecSeq == Init /\ [][NextSeq]_vars

\* ------------------------------------------- sequential runs, wider cache
\* Get and Insert calls made one at a time on a cache of up to MaxSize + 1
\* entries, the keys drawn from WideKeys
InitWide ==
    /\ sz \in WideSizes
    /\ panicked = New(sz).panic
    /\ size = New(sz).size
    /\ list = New(sz).list
    /\ cache = New(sz).cache
    /\ items = EmptyMap
    /\ readers = {}
    /\ writer = NoThread
    /\ th = [t \in Threads |-> Idle]
    /\ pre = <<>>
    /\ prev = NoCall
    /\ run = <<>>
    /\ lin = {NoCalls}
    /\ calls = [t \in Threads |-> 0]

StartsWide == pre' = Contents /\ UNCHANGED <<prev, run, lin, calls>>

ReturnsWide == pre' = <<>> /\ UNCHANGED <<prev, run, lin, calls>>

NextWide ==
    \/ \E t \in Threads : Alone(t) /\ \E k \in WideKeys : CallGet(t, k) /\ StartsWide
    \/ \E t \in Threads : Alone(t) /\ \E k \in WideKeys, v \in Vals :
          CallInsert(t, k, v) /\ StartsWide
    \/ \E t \in Threads : Alone(t) /\ Return(t) /\ ReturnsWide
    \/ \E t \in Threads : Alone(t) /\ GetRLock(t) /\ Inside
    \/ \E t \in Threads : Alone(t) /\ GetRUnlock(t) /\ Inside
    \/ \E t \in Threads : Alone(t) /\ GetLock(t) /\ Inside
    \/ \E t \in Threads : Alone(t) /\ GetMoveToFront(t) /\ Inside
    \/ \E t \in Threads : Alone(t) /\ GetUnlock(t) /\ Inside
    \/ \E t \in Threads : Alone(t) /\ InsertLock(t) /\ Inside
    \/ \E t \in Threads : Alone(t) /\ InsertBody(t) /\ Inside
    \/ \E t \in Threads : Alone(t) /\ InsertUnlock(t) /\ Inside

SpecWide == InitWide /\ [][NextWide]_vars

\* ----------------------------------------------------------------- claims
\* thread t's call of operation o has returned
Done(t, o) == th[t].pc = "done" /\ th[t].op = o

\* the places of the Ledger whose entry carries key k
Places(k) == {i \in DOMAIN list : items[list[i]].key = k}

\* C1: whenever no thread is inside an exclusive section, the Ledger and the
\* Index have the same number of entries, at most the capacity
CapacityInvariant ==
    (~panicked /\ writer = NoThread) =>
        /\ Len(list) = Cardinality(DOMAIN cache)
        /\ Len(list) <= size

\* a thread's Insert has returned into a full cache of capacity 2 while
\* another thread is in the middle of its own call
CapacityWitness ==
    \E t, u \in Threads :
        /\ Done(t, "Insert") /\ writer = NoThread
        /\ size = 2 /\ Len(list) = 2 /\ Cardinality(DOMAIN cache) = 2
        /\ th[u].pc = "Get_Lock"

\* C2: a FastRateLookup that missed and whose loader returned (v, nil)
\* returns (v, nil)
FillThroughReturnsLoaded ==
    \A t \in Threads :
        (Done(t, "FastRateLookup") /\ th[t].loaderCalls = 1
            /\ th[t].inner.err = NoErr) =>
            th[t].ret = [value |-> th[t].inner.taxRate, err |-> NoErr]

\* C3: one call at a time: FastRateLookup(k, loader) on an absent key calls
\* the loader once; when the loader gave v the cache then holds <<k, v>> at
\* the front, the back entry evicted if the cache was full; and a
\* FastRateLookup(k, loader) right after it calls no loader and returns v
FillThroughWriteBack ==
    \A t \in Threads :
        Done(t, "FastRateLookup") =>
            /\ (th[t].key \notin KeysOf(pre) /\ th[t].loader # "nil") =>
                  th[t].loaderCalls = 1
            /\ (th[t].loaderCalls = 1 /\ th[t].inner.err = NoErr) =>
                  /\ Contents = <<<<th[t].key, th[t].inner.taxRate>>>>
                        \o (IF Len(pre) = size THEN AllButBack(pre) ELSE pre)
                  /\ cache[th[t].key] = list[1]
            /\ (prev.op = "FastRateLookup" /\ prev.key = th[t].key
                  /\ prev.loaded # NaN) =>
                  /\ th[t].loaderCalls = 0
                  /\ th[t].ret = [value |-> prev.loaded, err |-> NoErr]

\* the second of two FastRateLookup calls for one key has returned; the
\* first one missed, loaded a value and wrote it into a cache of capacity 2
FillThroughWitness ==
    \E t \in Threads :
        /\ Done(t, "FastRateLookup") /\ th[t].loader # "nil"
        /\ prev.op = "FastRateLookup" /\ prev.key = th[t].key
        /\ prev.loaded # NaN
        /\ size = 2 /\ Len(list) = 2

\* C4: whenever no thread is inside an exclusive section, a key is in the
\* Index iff exactly one Ledger entry carries it, no key is carried twice,
\* and the Index handle of a key is that entry, linked in the Ledger
IndexLedgerConsistent ==
    (~panicked /\ writer = NoThread) =>
        \A k \in Keys :
            /\ Cardinality(Places(k)) <= 1
            /\ k \in DOMAIN cache <=> Places(k) # {}
            /\ k \in DOMAIN cache =>
                  /\ cache[k] \in Range(list)
                  /\ items[cache[k]].key = k

\* an entry was evicted while a thread still holds the element it looked up,
\* and the key of that element has been inserted again
IndexLedgerWitness ==
    \E t \in Threads :
        /\ writer = NoThread
        /\ th[t].pc = "Get_Lock"
        /\ th[t].elem \notin Range(list)
        /\ th[t].key \in DOMAIN cache
        /\ Len(list) = 2

\* C5: one call at a time: Insert of an absent key into a full cache removes
\* the back entry, and only it, from Ledger and Index and puts the new entry
\* at the front; after size + 1 Inserts of distinct keys in a row the last
\* size of them are cached, latest first, and the first is not
LRUEviction ==
    \A t \in Threads :
        Done(t, "Insert") =>
            /\ (th[t].key \notin KeysOf(pre) /\ Len(pre) = size) =>
                  /\ Contents = <<<<th[t].key, th[t].value>>>> \o AllButBack(pre)
                  /\ DOMAIN cache = KeysOf(Contents)
                  /\ pre[Len(pre)][1] \notin DOMAIN cache
            /\ Len(run) = size + 1 =>
                  /\ Len(list) = size
                  /\ \A i \in 1..size : Contents[i][1] = run[size + 2 - i]
                  /\ DOMAIN cache = {run[i] : i \in 2..(size + 1)}

\* three distinct keys were inserted in a row into a cache of capacity 2
LRUEvictionWitness ==
    \E t \in Threads :
        /\ Done(t, "Insert") /\ size = 2 /\ Len(run) = 3
        /\ Len(pre) = 2 /\ th[t].key \notin KeysOf(pre)

\* C6: one call at a time: Get of a cached key k returns k's entry with its
\* stored value and moves it to the front, the others keeping their order;
\* an Insert right after it that evicts, from a cache holding another key,
\* evicts the back entry and not k
AccessPromotes ==
    \A t \in Threads :
        /\ (Done(t, "Get") /\ th[t].key \in KeysOf(pre)) =>
              /\ th[t].ret.err = NoErr
              /\ th[t].elem = list[1]
              /\ items[th[t].elem] =
                    [key |-> th[t].key, value |-> ValueOf(pre, th[t].key)]
              /\ Contents = <<<<th[t].key, ValueOf(pre, th[t].key)>>>>
                               \o Without(pre, th[t].key)
        /\ (Done(t, "Insert") /\ prev.op = "Get" /\ prev.err = NoErr
              /\ th[t].key \notin KeysOf(pre) /\ Len(pre) = size
              /\ Len(pre) >= 2) =>
              /\ prev.key \in DOMAIN cache
              /\ KeysOf(Contents) =
                    (KeysOf(pre) \ {pre[Len(pre)][1]}) \cup {th[t].key}
              /\ pre[Len(pre)][1] # prev.key

\* Get(a) found a at the back of a full cache of capacity 2, and the Insert
\* of a new key right after it has evicted the other key
AccessPromotesWitness ==
    \E t \in Threads :
        /\ Done(t, "Insert") /\ prev.op = "Get" /\ prev.err = NoErr
        /\ size = 2 /\ Len(pre) = 2
        /\ th[t].key \notin KeysOf(pre)
        /\ prev.key \in DOMAIN cache

\* C7: one call at a time: Insert(k, v) of a cached key k sets k's value to
\* v and moves k to the front; nothing is evicted and the other entries keep
\* their order, also when the cache is full
UpdateInPlace ==
    \A t \in Threads :
        (Done(t, "Insert") /\ th[t].key \in KeysOf(pre)) =>
            /\ Contents = <<<<th[t].key, th[t].value>>>> \o Without(pre, th[t].key)
            /\ Len(list) = Len(pre)
            /\ DOMAIN cache = KeysOf(pre)

\* the key at the back of a full cache of capacity 2 was inserted again with
\* another value
UpdateInPlaceWitness ==
    \E t \in Threads :
        /\ Done(t, "Insert") /\ size = 2 /\ Len(pre) = 2
        /\ pre[2][1] = th[t].key /\ pre[2][2] # th[t].value

\* C8: one call at a time: a FastRateLookup whose loader failed returns an
\* error that is neither nil nor the not-found error of Get, and Ledger and
\* Index are as they were before the call, without the key
LoaderFailurePropagates ==
    \A t \in Threads :
        (Done(t, "FastRateLookup") /\ th[t].inner.err # NoErr) =>
            /\ th[t].ret.err \notin {NoErr, ErrNotFound}
            /\ th[t].ret.err = ErrLoader
            /\ Contents = pre
            /\ DOMAIN cache = KeysOf(pre)
            /\ th[t].key \notin DOMAIN cache

\* the loader failed on a miss in a cache that holds an entry
LoaderFailureWitness ==
    \E t \in Threads :
        /\ Done(t, "FastRateLookup") /\ th[t].inner.err # NoErr
        /\ th[t].loaderCalls = 1 /\ Len(list) >= 1

\* C9: one call at a time: FastRateLookup of a cached key k calls no loader,
\* returns k's stored value and nil, and moves k to the front
FillThroughUnderHit ==
    \A t \in Threads :
        (Done(t, "FastRateLookup") /\ th[t].key \in KeysOf(pre)) =>
            /\ th[t].loaderCalls = 0
            /\ th[t].ret = [value |-> ValueOf(pre, th[t].key), err |-> NoErr]
            /\ Contents = <<<<th[t].key, ValueOf(pre, th[t].key)>>>>
                             \o Without(pre, th[t].key)

\* FastRateLookup with a loader hit the key at the back of the cache
FillThroughUnderHitWitness ==
    \E t \in Threads :
        /\ Done(t, "FastRateLookup") /\ th[t].loader # "nil"
        /\ Len(pre) = 2 /\ pre[2][1] = th[t].key

\* C10: a thread that is executing the loader holds neither the shared nor
\* the exclusive lock
LoaderOutsideGuard ==
    \A t \in Threads :
        th[t].pc = "FRL_loader" => (t \notin readers /\ writer # t)

\* while one thread executes the loader, another thread's Insert is inside
\* its exclusive section and has already written its entry
LoaderOutsideGuardWitness ==
    \E t, u \in Threads :
        /\ th[t].pc = "FRL_loader"
        /\ th[u].pc = "Insert_Unlock" /\ writer = u
        /\ th[u].key \in DOMAIN cache

\* C11: in-flight loads are not deduplicated: a FastRateLookup that missed
\* and loaded writes its value back whether or not another caller has cached
\* the key since the miss, and at the end of its write-back the key is cached
\* exactly once, at the front, with the value it loaded
DuplicateLoadCachedOnce ==
    \A t \in Threads :
        (th[t].pc = "Insert_Unlock" /\ th[t].op = "FastRateLookup") =>
            /\ th[t].loaderCalls = 1
            /\ Cardinality(Places(th[t].key)) = 1
            /\ th[t].key \in DOMAIN cache
            /\ cache[th[t].key] = list[1]
            /\ items[list[1]] = [key |-> th[t].key, value |-> th[t].inner.taxRate]

\* two concurrent FastRateLookup calls for one key both missed and both
\* called the loader; both have completed and the key is cached once
DuplicateLoadWitness ==
    \E t, u \in Threads :
        /\ t # u
        /\ Done(t, "FastRateLookup") /\ Done(u, "FastRateLookup")
        /\ th[t].key = th[u].key
        /\ th[t].loaderCalls = 1 /\ th[u].loaderCalls = 1
        /\ th[t].inner.err = NoErr /\ th[u].inner.err = NoErr
        /\ Cardinality(Places(th[t].key)) = 1
        /\ Len(list) = 1

\* C12: one call at a time: FastRateLookup(k, nil) on an absent key returns
\* the not-found error of Get, not the loader-failure error, calls nothing,
\* and leaves Ledger and Index as they were
MissWithoutLoader ==
    \A t \in Threads :
        (Done(t, "FastRateLookup") /\ th[t].loader = "nil"
            /\ th[t].key \notin KeysOf(pre)) =>
            /\ th[t].ret = [value |-> NaN, err |-> ErrNotFound]
            /\ th[t].ret.err # ErrLoader
            /\ th[t].loaderCalls = 0
            /\ th[t].inner = Idle.inner
            /\ Contents = pre
            /\ DOMAIN cache = KeysOf(pre)

\* FastRateLookup without a loader missed in a full cache of capacity 2
MissWithoutLoaderWitness ==
    \E t \in Threads :
        /\ Done(t, "FastRateLookup") /\ th[t].loader = "nil"
        /\ th[t].key \notin KeysOf(pre)
        /\ size = 2 /\ Len(pre) = 2

\* the steps of Get
GetSteps == {"Get_RLock", "Get_RUnlock", "Get_Lock", "Get_MoveToFront", "Get_Unlock"}

\* C13: one call at a time: a Get of a key that is not cached never takes
\* the exclusive lock; it returns the not-found error and no item, and
\* Ledger order, Index and stored values are as they were
GetMiss ==
    \A t \in Threads :
        /\ (th[t].pc \in GetSteps /\ th[t].key \notin KeysOf(pre)) =>
              /\ th[t].pc \in {"Get_RLock", "Get_RUnlock"}
              /\ writer # t
              /\ th[t].elem = NoElem
              /\ Contents = pre
        /\ (Done(t, "Get") /\ th[t].key \notin KeysOf(pre)) =>
              /\ th[t].ret.err = ErrNotFound
              /\ th[t].elem = NoElem
              /\ writer # t /\ t \notin readers
              /\ Contents = pre
              /\ DOMAIN cache = KeysOf(pre)
              /\ \A k \in DOMAIN cache : items[cache[k]].key = k

\* Get missed in a full cache of capacity 2
GetMissWitness ==
    \E t \in Threads :
        /\ Done(t, "Get") /\ th[t].ret.err = ErrNotFound
        /\ size = 2 /\ Len(pre) = 2

\* C14: Insert always returns nil; FastRateLookup returns nil, the not-found
\* error (on a miss without a loader) or the loader-failure error (when the
\* loader failed), and never the insertion-failure error
InsertionNeverFails ==
    \A t \in Threads :
        /\ Done(t, "Insert") => th[t].ret.err = NoErr
        /\ Done(t, "FastRateLookup") =>
              /\ th[t].ret.err \in {NoErr, ErrNotFound, ErrLoader}
              /\ th[t].ret.err # ErrInsert
              /\ th[t].ret.err = ErrNotFound =>
                    (th[t].loader = "nil" /\ th[t].loaderCalls = 0)
              /\ th[t].ret.err = ErrLoader =>
                    (th[t].loaderCalls = 1 /\ th[t].inner.err # NoErr)

\* a FastRateLookup has returned after it wrote a loaded value into the
\* cache, while another thread's Insert has returned too
InsertionNeverFailsWitness ==
    \E t, u \in Threads :
        /\ Done(t, "FastRateLookup") /\ th[t].loaderCalls = 1
        /\ th[t].inner.err = NoErr /\ th[t].ret.err = NoErr
        /\ Done(u, "Insert")

\* C15: New panics exactly when its argument is not positive, and then no
\* call is ever made on a cache; otherwise the cache is empty before the
\* first call and its capacity is the argument, whatever calls were made
Construction ==
    /\ panicked <=> sz <= 0
    /\ panicked =>
          /\ \A t \in Threads : th[t] = Idle
          /\ list = <<>> /\ cache = EmptyMap /\ prev = NoCall
    /\ ~panicked => size = sz
    /\ (prev = NoCall /\ \A t \in Threads : th[t].pc = "idle") =>
          (list = <<>> /\ cache = EmptyMap /\ items = EmptyMap)

\* a cache made by New(2) is full after calls that evicted an entry
ConstructionWitness ==
    /\ sz = 2 /\ size = 2 /\ Len(list) = 2
    /\ Len(run) = 3
    /\ \E t \in Threads : Done(t, "Insert")

\* C16: whenever a Get is about to return a hit for key k, at the end of its
\* exclusive section k is in the Index and k's entry, the one Get returns,
\* is at the front of the Ledger
GetPromotesConcurrently ==
    \A t \in Threads :
        th[t].pc = "Get_Unlock" =>
            /\ th[t].key \in DOMAIN cache
            /\ cache[th[t].key] = list[1]
            /\ th[t].elem = list[1]

\* C18: no thread reads the value of an entry without holding the lock
\* while another thread, inside the exclusive section of Insert, is about to
\* overwrite the value of that entry
NoUnsynchronisedValueAccess ==
    \A t, u \in Threads :
        ~ /\ th[t].pc = "FRL_value"
          /\ t \notin readers /\ writer # t
          /\ th[u].pc = "Insert_body" /\ writer = u
          /\ th[u].key \in DOMAIN cache
          /\ cache[th[u].key] = th[t].elem

\* C20: one call at a time: a Get hit or an Insert on key k leaves the other
\* entries with their values and in their relative order, but for the back
\* entry that an Insert of a new key into a full cache evicts; a Get hit
\* leaves k's value as it was
OthersKeepOrder ==
    \A t \in Threads :
        /\ (Done(t, "Get") /\ th[t].ret.err = NoErr) =>
              /\ Without(Contents, th[t].key) = Without(pre, th[t].key)
              /\ KeysOf(Contents) = KeysOf(pre)
              /\ ValueOf(Contents, th[t].key) = ValueOf(pre, th[t].key)
        /\ Done(t, "Insert") =>
              /\ Without(Contents, th[t].key) =
                    IF th[t].key \notin KeysOf(pre) /\ Len(pre) >= size
                    THEN AllButBack(pre)
                    ELSE Without(pre, th[t].key)
              /\ ValueOf(Contents, th[t].key) = th[t].value

\* Get hit the key at the back of a cache of three entries, whose two other
\* entries carry different values
OthersKeepOrderWitness ==
    \E t \in Threads :
        /\ Done(t, "Get") /\ th[t].ret.err = NoErr
        /\ Len(pre) = 3 /\ pre[3][1] = th[t].key
        /\ pre[1][2] # pre[2][2]
        /\ Contents[1][1] = th[t].key

\* C19: under fair scheduling every call that has started eventually returns,
\* holding neither the shared nor the exclusive lock
EveryCallReturns ==
    \A t \in Threads :
        (th[t].pc \notin {"idle", "done"}) ~>
            (th[t].pc = "done" /\ t \notin readers /\ writer # t)

\* a Get that hit waits for the exclusive lock, which another thread's Insert
\* holds, while its shared lock is released
EveryCallReturnsWitness ==
    \E t, u \in Threads :
        /\ th[t].pc = "Get_Lock" /\ t \notin readers
        /\ writer = u /\ th[u].pc = "Insert_body"

\* C17: the Get and Insert calls made so far, with the results they returned
\* and, when no call is in progress, the contents of the cache, are those of
\* an atomic cache that executed each call at some point between its start
\* and its return
Linearizable == lin # {}

====
